---- MODULE Spec2Model ----
(***************************************************************************)
(* Model of the GAN training notebook GAN_PyTorch_HandsOn_Final.ipynb:     *)
(* the data loader, the Generator's layer stack, the two loss functions,   *)
(* the two Adam optimizers and the training loop, statement by statement.  *)
(*                                                                         *)
(* Abstractions.                                                           *)
(*  - A network's parameters are a version number (the count of optimizer  *)
(*    steps applied to them) with the set of gradient contributions the    *)
(*    last step consumed.                                                  *)
(*  - A gradient buffer (.grad) is the set of contributions accumulated in *)
(*    it since it was last cleared, each tagged <<loss, step>>.            *)
(*  - A batch of logits is one representative logit, drawn from Logits for  *)
(*    generated images and from RealLogits for a real batch;               *)
(*    BCEWithLogitsLoss is tabulated on it in units of 1/1000.             *)
(*  - The running-loss accumulators are exact rationals, kept as integers  *)
(*    in units of 1/(1000 * Scale), Scale a common multiple of the batch   *)
(*    sizes the loader yields.                                             *)
(*  - A tensor is its shape, the range of its elements and whether the     *)
(*    computation that produced it raised.                                 *)
(***************************************************************************)
EXTENDS Integers, Sequences, FiniteSets, TLC

(* ---------------------------------------------------------------------- *)
(* Bounds of the model (scaled-down hyperparameters and input ranges).     *)
(* ---------------------------------------------------------------------- *)
NumEpochs == 2
DisplayStep == 2
BatchSize == 3
DatasetLen == 5
MaxB == 4
MaxZ == 4

(* ---------------------------------------------------------------------- *)
(* Program constants.                                                      *)
(* ---------------------------------------------------------------------- *)
RealBatchSize == 128
RealDatasetLen == 60000
RealDisplayStep == 100
z_dim == 64
img_show == 3
ImgDim == 784
HiddenDim == 128
GridMax == 36

Nets == {"gen", "disc"}
\* The representative logits drawn for a batch: the discriminator's output on
\* generated images, and its output on a real batch.
Logits == {-1, 1}
RealLogits == {1}

VARIABLES
  hp,                       \* hyperparameters: num_epochs, display_step, batch_size, n_data
  pc,                       \* the statement of the training cell about to run
  epoch,                    \* the for-loop variable epoch
  loader_pos,               \* examples the loader has yielded in the current epoch
  cur_batch_size,
  params,                   \* params[n]: [ver, by] of network n
  grads,                    \* grads[n]: the .grad buffers of network n's parameters
  disc_loss, gen_loss,
  mean_generator_loss, mean_discriminator_loss,
  G_losses, D_losses, img_list,
  cur_step,
  reports,                  \* the lines printed so far
  shown,                    \* the calls of show_tensor_images so far
  step_log,                 \* history: per update pair, the losses and batch size it accumulated
  rng_calls,                \* torch.randn calls so far (the position in the random stream)
  fwd                       \* a Generator forward pass in progress, layer by layer

vars == <<hp, pc, epoch, loader_pos, cur_batch_size, params, grads, disc_loss, gen_loss,
          mean_generator_loss, mean_discriminator_loss, G_losses, D_losses, img_list,
          cur_step, reports, shown, step_log, rng_calls, fwd>>

loopvars == <<hp, pc, epoch, loader_pos, cur_batch_size, params, grads, disc_loss, gen_loss,
              mean_generator_loss, mean_discriminator_loss, G_losses, D_losses, img_list,
              cur_step, reports, shown, step_log, rng_calls>>

(* ---------------------------------------------------------------------- *)
(* Arithmetic helpers.                                                     *)
(* ---------------------------------------------------------------------- *)
Min(a, b) == IF a <= b THEN a ELSE b

RECURSIVE GCD(_, _)
GCD(a, b) == IF b = 0 THEN a ELSE GCD(b, a % b)

LCM(a, b) == (a * b) \div GCD(a, b)

(* ---------------------------------------------------------------------- *)
(* The data loader: DataLoader(data_train, batch_size, shuffle=True), with *)
(* drop_last left at its default (False).                                  *)
(* ---------------------------------------------------------------------- *)
LoaderRemaining == hp.n_data - loader_pos

LoaderNextSize == Min(hp.batch_size, LoaderRemaining)

\* len(train_loader)
LoaderLen == (hp.n_data + hp.batch_size - 1) \div hp.batch_size

LastBatchSize == IF hp.n_data % hp.batch_size = 0 THEN hp.batch_size
                 ELSE hp.n_data % hp.batch_size

\* A common multiple of every batch size the loader yields.
Scale == LCM(hp.batch_size, LastBatchSize)

\* x / cur_batch_size, in units of 1/Scale
DivBatch(x, b) == (x * Scale) \div b

(* ---------------------------------------------------------------------- *)
(* The Generator: its layer stack and its forward pass.                    *)
(* ---------------------------------------------------------------------- *)
Layer(op, i, o) == [op |-> op, in |-> i, out |-> o]

get_generator_block(input_dim, output_dim) ==
  << Layer("Linear", input_dim, output_dim),
     Layer("BatchNorm1d", output_dim, output_dim),
     Layer("LeakyReLU", 0, 0),
     Layer("Dropout", 0, 0) >>

GeneratorLayers(z, img_dim, hidden_dim) ==
  get_generator_block(z, hidden_dim)
    \o get_generator_block(hidden_dim, hidden_dim * 2)
    \o get_generator_block(hidden_dim * 2, hidden_dim * 4)
    \o get_generator_block(hidden_dim * 4, hidden_dim * 8)
    \o << Layer("Linear", hidden_dim * 8, img_dim), Layer("Sigmoid", 0, 0) >>

\* nn.Module is constructed in training mode and the notebook never calls
\* eval() or train().
generator_training == TRUE

Tensor(b, f) == [shape |-> <<b, f>>, range |-> "real", status |-> "ok", dropout |-> FALSE]

Raised(x) == [x EXCEPT !.status = "error"]

\* One module of the stack applied to x. Linear and BatchNorm1d raise on a
\* feature-size mismatch; BatchNorm1d in training mode raises on a batch of
\* one row ("Expected more than 1 value per channel when training").
\* Dropout zeroes units in training mode and is the identity otherwise; the
\* tensor records that units were dropped on the way to it.
ApplyLayer(l, x, training) ==
  IF x.status # "ok" THEN x
  ELSE IF l.op = "Linear"
    THEN IF x.shape[2] # l.in THEN Raised(x)
         ELSE [x EXCEPT !.shape = <<x.shape[1], l.out>>, !.range = "real"]
  ELSE IF l.op = "BatchNorm1d"
    THEN IF x.shape[2] # l.in \/ (training /\ x.shape[1] = 1) THEN Raised(x)
         ELSE [x EXCEPT !.range = "real"]
  ELSE IF l.op = "Sigmoid"
    THEN [x EXCEPT !.range = "unit_open"]
  ELSE IF l.op = "Dropout"
    THEN IF training THEN [x EXCEPT !.dropout = TRUE] ELSE x
  ELSE x

\* nn.Sequential: the modules in order, each on the output of the one before
\* (l and v bind the remaining modules and the tensor as values, so that each
\* module's output is computed once).
RECURSIVE ApplyLayers(_, _, _)
ApplyLayers(ls, x, training) ==
  CHOOSE r \in { IF l = <<>> THEN v
                 ELSE ApplyLayers(Tail(l), ApplyLayer(Head(l), v, training), training) :
                 l \in {ls}, v \in {x} } : TRUE

\* generator(noise), the module built by Generator(z_dim)
GeneratorForward(x) ==
  ApplyLayers(GeneratorLayers(z_dim, ImgDim, HiddenDim), x, generator_training)

\* get_generator_noise(n_sample, z_dim)
get_generator_noise(n_sample, z) == Tensor(n_sample, z)

(* ---------------------------------------------------------------------- *)
(* The loss functions.                                                     *)
(* ---------------------------------------------------------------------- *)
\* softplus(x) = log(1 + exp(x)), in units of 1/1000
Softplus(x) == IF x = 1 THEN 1313 ELSE IF x = 0 THEN 693 ELSE 313

\* criterion = nn.BCEWithLogitsLoss(): target 1 gives softplus(-x), target 0 softplus(x)
criterion(logit, target) == IF target = 1 THEN Softplus(-logit) ELSE Softplus(logit)

Term(input, detached, logit, target) ==
  [input |-> input, detached |-> detached, logit |-> logit, target |-> target]

NoLoss == [kind |-> "none", val |-> 0, terms |-> <<>>, div |-> 1, noise |-> <<0, 0>>,
           noise_id |-> 0, gen_ver |-> 0, disc_ver |-> 0, graph |-> {}, step |-> 0,
           dropout |-> FALSE]

\* The networks whose parameters a loss's autograd graph reaches: the
\* discriminator's through every term, the generator's through a term whose
\* generator output was not detached.
GraphOf(terms) ==
  {"disc"} \cup {n \in {"gen"} : \E i \in DOMAIN terms :
                     terms[i].input = "fake" /\ ~terms[i].detached}

\* (mutant) the generator output is not detached
get_discriminator_loss_attached(lf, lr, num_images) ==
  LET noise == get_generator_noise(num_images, z_dim)
      disc_loss_fake == criterion(lf, 0)
      disc_loss_real == criterion(lr, 1)
      terms == << Term("fake", FALSE, lf, 0), Term("real", FALSE, lr, 1) >>
  IN [kind |-> "disc_loss",
      val |-> (disc_loss_fake + disc_loss_real) \div 2,
      terms |-> terms, div |-> 2, noise |-> noise.shape, noise_id |-> rng_calls + 1,
      gen_ver |-> params["gen"].ver, disc_ver |-> params["disc"].ver,
      graph |-> GraphOf(terms), step |-> cur_step,
      dropout |-> GeneratorForward(noise).dropout]

get_discriminator_loss(lf, lr, num_images) ==
  LET noise == get_generator_noise(num_images, z_dim)
      disc_loss_fake == criterion(lf, 0)
      disc_loss_real == criterion(lr, 1)
      terms == << Term("fake", TRUE, lf, 0), Term("real", FALSE, lr, 1) >>
  IN [kind |-> "disc_loss",
      val |-> (disc_loss_fake + disc_loss_real) \div 2,
      terms |-> terms, div |-> 2, noise |-> noise.shape, noise_id |-> rng_calls + 1,
      gen_ver |-> params["gen"].ver, disc_ver |-> params["disc"].ver,
      graph |-> GraphOf(terms), step |-> cur_step,
      dropout |-> GeneratorForward(noise).dropout]

get_generator_loss(lg, num_images) ==
  LET noise == get_generator_noise(num_images, z_dim)
      terms == << Term("fake", FALSE, lg, 1) >>
  IN [kind |-> "gen_loss",
      val |-> criterion(lg, 1),
      terms |-> terms, div |-> 1, noise |-> noise.shape, noise_id |-> rng_calls + 1,
      gen_ver |-> params["gen"].ver, disc_ver |-> params["disc"].ver,
      graph |-> GraphOf(terms), step |-> cur_step,
      dropout |-> GeneratorForward(noise).dropout]

(* ---------------------------------------------------------------------- *)
(* The optimizers: each is built over one network's parameters.            *)
(* ---------------------------------------------------------------------- *)
gen_optimizer == {"gen"}

disc_optimizer == {"disc"}

\* optimizer.zero_grad(): clears the .grad of the optimizer's own parameters
zero_grad(opt) == [n \in Nets |-> IF n \in opt THEN {} ELSE grads[n]]

\* loss.backward(): accumulates into the .grad of every parameter in the graph
backward(loss) ==
  [n \in Nets |-> IF n \in loss.graph THEN grads[n] \cup {<<loss.kind, loss.step>>}
                  ELSE grads[n]]

\* (mutant) an optimizer built over both networks' parameters
step_all(opt) ==
  [n \in Nets |-> IF grads[n] # {}
                  THEN [ver |-> params[n].ver + 1, by |-> grads[n]]
                  ELSE params[n]]

\* optimizer.step(): updates the optimizer's own parameters that hold a gradient
step(opt) ==
  [n \in Nets |-> IF n \in opt /\ grads[n] # {}
                  THEN [ver |-> params[n].ver + 1, by |-> grads[n]]
                  ELSE params[n]]

(* ---------------------------------------------------------------------- *)
(* The initial state: the assignments above the loop.                      *)
(* ---------------------------------------------------------------------- *)
NoFwd == [i |-> 0, z |-> 0, b |-> 0, x |-> [shape |-> <<0, 0>>, range |-> "real", status |-> "idle", dropout |-> FALSE]]

InitLoop(h) ==
  /\ hp = h
  /\ pc = IF h.num_epochs > 0 THEN "fetch" ELSE "done"
  /\ epoch = 0
  /\ loader_pos = 0
  /\ cur_batch_size = 0
  /\ params = [n \in Nets |-> [ver |-> 0, by |-> {}]]
  /\ grads = [n \in Nets |-> {}]
  /\ disc_loss = NoLoss
  /\ gen_loss = NoLoss
  /\ mean_generator_loss = 0
  /\ mean_discriminator_loss = 0
  /\ G_losses = <<>>
  /\ D_losses = <<>>
  /\ img_list = <<>>
  /\ cur_step = 0
  /\ reports = <<>>
  /\ shown = <<>>
  /\ step_log = <<>>
  /\ rng_calls = 0

SmallHp == [num_epochs |-> NumEpochs, display_step |-> DisplayStep,
            batch_size |-> BatchSize, n_data |-> DatasetLen]

Init == InitLoop(SmallHp) /\ fwd = NoFwd

(* ---------------------------------------------------------------------- *)
(* The training loop, one action per statement.                            *)
(* ---------------------------------------------------------------------- *)
\* A generator forward pass on a batch of n noise rows raises or not.
ForwardOk(n) == GeneratorForward(get_generator_noise(n, z_dim)).status = "ok"

\* Whether a generator forward pass on n noise rows drops units.
ForwardDropout(n) == GeneratorForward(get_generator_noise(n, z_dim)).dropout

\* (mutant) a loader that drops the last, partial batch (drop_last=True)
FetchBatchDropLast ==
  /\ pc = "fetch"
  /\ IF LoaderRemaining >= hp.batch_size
     THEN /\ cur_batch_size' = hp.batch_size
          /\ loader_pos' = loader_pos + hp.batch_size
          /\ pc' = "disc_zero"
     ELSE /\ pc' = "epoch_end"
          /\ UNCHANGED <<cur_batch_size, loader_pos>>
  /\ UNCHANGED <<hp, epoch, params, grads, disc_loss, gen_loss, mean_generator_loss,
                 mean_discriminator_loss, G_losses, D_losses, img_list, cur_step,
                 reports, shown, step_log, rng_calls, fwd>>

\* for real, _ in tqdm(train_loader): cur_batch_size = len(real); real = real.view(...)
FetchBatch ==
  /\ pc = "fetch"
  /\ IF LoaderRemaining > 0
     THEN /\ cur_batch_size' = LoaderNextSize
          /\ loader_pos' = loader_pos + LoaderNextSize
          /\ pc' = "disc_zero"
     ELSE /\ pc' = "epoch_end"
          /\ UNCHANGED <<cur_batch_size, loader_pos>>
  /\ UNCHANGED <<hp, epoch, params, grads, disc_loss, gen_loss, mean_generator_loss,
                 mean_discriminator_loss, G_losses, D_losses, img_list, cur_step,
                 reports, shown, step_log, rng_calls, fwd>>

\* (mutant) the discriminator's gradients are not cleared
DiscZeroGradMissing ==
  /\ pc = "disc_zero"
  /\ pc' = "disc_loss"
  /\ UNCHANGED <<hp, epoch, loader_pos, cur_batch_size, params, grads, disc_loss, gen_loss,
                 mean_generator_loss, mean_discriminator_loss, G_losses, D_losses,
                 img_list, cur_step, reports, shown, step_log, rng_calls, fwd>>

\* disc_optimizer.zero_grad()
DiscZeroGrad ==
  /\ pc = "disc_zero"
  /\ grads' = zero_grad(disc_optimizer)
  /\ pc' = "disc_loss"
  /\ UNCHANGED <<hp, epoch, loader_pos, cur_batch_size, params, disc_loss, gen_loss,
                 mean_generator_loss, mean_discriminator_loss, G_losses, D_losses,
                 img_list, cur_step, reports, shown, step_log, rng_calls, fwd>>

\* disc_loss = get_discriminator_loss(generator, discriminator, criterion, real, ...)
DiscLoss(lf, lr) ==
  /\ pc = "disc_loss"
  /\ rng_calls' = rng_calls + 1
  /\ IF ForwardOk(cur_batch_size)
     THEN /\ disc_loss' = get_discriminator_loss(lf, lr, cur_batch_size)
          /\ pc' = "disc_backward"
     ELSE /\ pc' = "error"
          /\ UNCHANGED disc_loss
  /\ UNCHANGED <<hp, epoch, loader_pos, cur_batch_size, params, grads, gen_loss,
                 mean_generator_loss, mean_discriminator_loss, G_losses, D_losses,
                 img_list, cur_step, reports, shown, step_log, fwd>>

\* disc_loss.backward()
DiscBackward ==
  /\ pc = "disc_backward"
  /\ grads' = backward(disc_loss)
  /\ pc' = "disc_step"
  /\ UNCHANGED <<hp, epoch, loader_pos, cur_batch_size, params, disc_loss, gen_loss,
                 mean_generator_loss, mean_discriminator_loss, G_losses, D_losses,
                 img_list, cur_step, reports, shown, step_log, rng_calls, fwd>>

\* (mutant) the discriminator update is left out of the step
DiscOptimizerStepMissing ==
  /\ pc = "disc_step"
  /\ pc' = "gen_zero"
  /\ UNCHANGED <<hp, epoch, loader_pos, cur_batch_size, params, grads, disc_loss, gen_loss,
                 mean_generator_loss, mean_discriminator_loss, G_losses, D_losses,
                 img_list, cur_step, reports, shown, step_log, rng_calls, fwd>>

\* disc_optimizer.step()
DiscOptimizerStep ==
  /\ pc = "disc_step"
  /\ params' = step(disc_optimizer)
  /\ pc' = "gen_zero"
  /\ UNCHANGED <<hp, epoch, loader_pos, cur_batch_size, grads, disc_loss, gen_loss,
                 mean_generator_loss, mean_discriminator_loss, G_losses, D_losses,
                 img_list, cur_step, reports, shown, step_log, rng_calls, fwd>>

\* gen_optimizer.zero_grad()
GenZeroGrad ==
  /\ pc = "gen_zero"
  /\ grads' = zero_grad(gen_optimizer)
  /\ pc' = "gen_loss"
  /\ UNCHANGED <<hp, epoch, loader_pos, cur_batch_size, params, disc_loss, gen_loss,
                 mean_generator_loss, mean_discriminator_loss, G_losses, D_losses,
                 img_list, cur_step, reports, shown, step_log, rng_calls, fwd>>

\* gen_loss = get_generator_loss(generator, discriminator, criterion, cur_batch_size, ...)
GenLoss(lg) ==
  /\ pc = "gen_loss"
  /\ rng_calls' = rng_calls + 1
  /\ IF ForwardOk(cur_batch_size)
     THEN /\ gen_loss' = get_generator_loss(lg, cur_batch_size)
          /\ pc' = "gen_backward"
     ELSE /\ pc' = "error"
          /\ UNCHANGED gen_loss
  /\ UNCHANGED <<hp, epoch, loader_pos, cur_batch_size, params, grads, disc_loss,
                 mean_generator_loss, mean_discriminator_loss, G_losses, D_losses,
                 img_list, cur_step, reports, shown, step_log, fwd>>

\* gen_loss.backward()
GenBackward ==
  /\ pc = "gen_backward"
  /\ grads' = backward(gen_loss)
  /\ pc' = "gen_step"
  /\ UNCHANGED <<hp, epoch, loader_pos, cur_batch_size, params, disc_loss, gen_loss,
                 mean_generator_loss, mean_discriminator_loss, G_losses, D_losses,
                 img_list, cur_step, reports, shown, step_log, rng_calls, fwd>>

\* gen_optimizer.step()
GenOptimizerStep ==
  /\ pc = "gen_step"
  /\ params' = step(gen_optimizer)
  /\ pc' = "accumulate"
  /\ UNCHANGED <<hp, epoch, loader_pos, cur_batch_size, grads, disc_loss, gen_loss,
                 mean_generator_loss, mean_discriminator_loss, G_losses, D_losses,
                 img_list, cur_step, reports, shown, step_log, rng_calls, fwd>>

\* mean_discriminator_loss += disc_loss.item() / cur_batch_size
\* mean_generator_loss += gen_loss.item() / cur_batch_size
Accumulate ==
  /\ pc = "accumulate"
  /\ mean_discriminator_loss' = mean_discriminator_loss + DivBatch(disc_loss.val, cur_batch_size)
  /\ mean_generator_loss' = mean_generator_loss + DivBatch(gen_loss.val, cur_batch_size)
  /\ step_log' = Append(step_log, [d |-> disc_loss.val, g |-> gen_loss.val,
                                   b |-> cur_batch_size, epoch |-> epoch])
  /\ pc' = "append"
  /\ UNCHANGED <<hp, epoch, loader_pos, cur_batch_size, params, grads, disc_loss, gen_loss,
                 G_losses, D_losses, img_list, cur_step, reports, shown,
                 rng_calls, fwd>>

\* (mutant) each list takes the accumulator of its own name
AppendLossesUnswapped ==
  /\ pc = "append"
  /\ G_losses' = Append(G_losses, mean_generator_loss)
  /\ D_losses' = Append(D_losses, mean_discriminator_loss)
  /\ pc' = "report"
  /\ UNCHANGED <<hp, epoch, loader_pos, cur_batch_size, params, grads, disc_loss, gen_loss,
                 mean_generator_loss, mean_discriminator_loss, img_list, cur_step,
                 reports, shown, step_log, rng_calls, fwd>>

\* (mutant) only one of the two lists is appended to
AppendLossesOneList ==
  /\ pc = "append"
  /\ G_losses' = Append(G_losses, mean_discriminator_loss)
  /\ pc' = "report"
  /\ UNCHANGED <<hp, epoch, loader_pos, cur_batch_size, params, grads, disc_loss, gen_loss,
                 mean_generator_loss, mean_discriminator_loss, D_losses, img_list,
                 cur_step, reports, shown, step_log, rng_calls, fwd>>

\* G_losses.append(mean_discriminator_loss); D_losses.append(mean_generator_loss)
AppendLosses ==
  /\ pc = "append"
  /\ G_losses' = Append(G_losses, mean_discriminator_loss)
  /\ D_losses' = Append(D_losses, mean_generator_loss)
  /\ pc' = "report"
  /\ UNCHANGED <<hp, epoch, loader_pos, cur_batch_size, params, grads, disc_loss, gen_loss,
                 mean_generator_loss, mean_discriminator_loss, img_list, cur_step,
                 reports, shown, step_log, rng_calls, fwd>>

\* (mutant) the report fires once display_step steps are complete
ReportDueAfter == (cur_step + 1) % hp.display_step = 0 /\ cur_step >= 0

\* if cur_step % display_step == 0 and cur_step >= 0:
ReportDue == cur_step % hp.display_step = 0 /\ cur_step >= 0

\* the test of the if, and the print(...) of its body
Report ==
  /\ pc = "report"
  /\ IF ReportDue
     THEN /\ reports' = Append(reports,
                 [epoch |-> epoch, num_epochs |-> hp.num_epochs, step |-> cur_step,
                  total |-> hp.num_epochs * LoaderLen,
                  gen |-> mean_generator_loss, disc |-> mean_discriminator_loss])
          /\ pc' = "snapshot"
     ELSE /\ pc' = "incr"
          /\ UNCHANGED reports
  /\ UNCHANGED <<hp, epoch, loader_pos, cur_batch_size, params, grads, disc_loss, gen_loss,
                 mean_generator_loss, mean_discriminator_loss, G_losses, D_losses,
                 img_list, cur_step, shown, step_log, rng_calls, fwd>>

\* fake_noise = get_generator_noise(cur_batch_size, ...); fake = generator(fake_noise)
\* img_list.append(make_grid(fake.detach().cpu().view(-1, *size)[:36], ...))
Snapshot ==
  /\ pc = "snapshot"
  /\ rng_calls' = rng_calls + 1
  /\ IF ForwardOk(cur_batch_size)
     THEN /\ img_list' = Append(img_list,
                 [step |-> cur_step, gen_ver |-> params["gen"].ver,
                  noise_id |-> rng_calls + 1, n |-> Min(cur_batch_size, GridMax),
                  dropout |-> ForwardDropout(cur_batch_size)])
          /\ pc' = "reset"
     ELSE /\ pc' = "error"
          /\ UNCHANGED img_list
  /\ UNCHANGED <<hp, epoch, loader_pos, cur_batch_size, params, grads, disc_loss, gen_loss,
                 mean_generator_loss, mean_discriminator_loss, G_losses, D_losses,
                 cur_step, reports, shown, step_log, fwd>>

\* (mutant) only one of the two accumulators is reset
ResetOnlyDisc ==
  /\ pc = "reset"
  /\ mean_discriminator_loss' = 0
  /\ pc' = "incr"
  /\ UNCHANGED <<hp, epoch, loader_pos, cur_batch_size, params, grads, disc_loss, gen_loss,
                 mean_generator_loss, G_losses, D_losses, img_list, cur_step, reports,
                 shown, step_log, rng_calls, fwd>>

\* mean_discriminator_loss = 0; mean_generator_loss = 0
ResetMeans ==
  /\ pc = "reset"
  /\ mean_discriminator_loss' = 0
  /\ mean_generator_loss' = 0
  /\ pc' = "incr"
  /\ UNCHANGED <<hp, epoch, loader_pos, cur_batch_size, params, grads, disc_loss, gen_loss,
                 G_losses, D_losses, img_list, cur_step, reports, shown, step_log,
                 rng_calls, fwd>>

\* cur_step += 1, the last statement of the loop body
IncrStep ==
  /\ pc = "incr"
  /\ cur_step' = cur_step + 1
  /\ pc' = "fetch"
  /\ UNCHANGED <<hp, epoch, loader_pos, cur_batch_size, params, grads, disc_loss, gen_loss,
                 mean_generator_loss, mean_discriminator_loss, G_losses, D_losses,
                 img_list, reports, shown, step_log, rng_calls, fwd>>

\* (mutant) the epoch loop runs one pass too many
EpochEndOneMore ==
  /\ pc = "epoch_end"
  /\ IF epoch % img_show = 0
     THEN /\ rng_calls' = rng_calls + 1
          /\ shown' = Append(shown, [epoch |-> epoch, n |-> cur_batch_size,
                                     gen_ver |-> params["gen"].ver,
                                     dropout |-> ForwardDropout(cur_batch_size)])
     ELSE UNCHANGED <<rng_calls, shown>>
  /\ IF epoch + 1 <= hp.num_epochs
     THEN /\ epoch' = epoch + 1
          /\ loader_pos' = 0
          /\ pc' = "fetch"
     ELSE /\ pc' = "done"
          /\ UNCHANGED <<epoch, loader_pos>>
  /\ UNCHANGED <<hp, cur_batch_size, params, grads, disc_loss, gen_loss,
                 mean_generator_loss, mean_discriminator_loss, G_losses, D_losses,
                 img_list, cur_step, reports, step_log, fwd>>

\* The loader is exhausted: if epoch % img_show == 0, generate and show a
\* comparison; then the next epoch of range(num_epochs), or the end of the loop.
EpochEnd ==
  /\ pc = "epoch_end"
  /\ IF epoch % img_show = 0
     THEN /\ rng_calls' = rng_calls + 1
          /\ shown' = IF ForwardOk(cur_batch_size)
                      THEN Append(shown, [epoch |-> epoch, n |-> cur_batch_size,
                                          gen_ver |-> params["gen"].ver,
                                          dropout |-> ForwardDropout(cur_batch_size)])
                      ELSE shown
     ELSE UNCHANGED <<rng_calls, shown>>
  /\ IF epoch % img_show = 0 /\ ~ForwardOk(cur_batch_size)
     THEN /\ pc' = "error"
          /\ UNCHANGED <<epoch, loader_pos>>
     ELSE IF epoch + 1 < hp.num_epochs
     THEN /\ epoch' = epoch + 1
          /\ loader_pos' = 0
          /\ pc' = "fetch"
     ELSE /\ pc' = "done"
          /\ UNCHANGED <<epoch, loader_pos>>
  /\ UNCHANGED <<hp, cur_batch_size, params, grads, disc_loss, gen_loss,
                 mean_generator_loss, mean_discriminator_loss, G_losses, D_losses,
                 img_list, cur_step, reports, step_log, fwd>>

Next ==
  \/ FetchBatch
  \/ DiscZeroGrad
  \/ \E lf \in Logits, lr \in RealLogits : DiscLoss(lf, lr)
  \/ DiscBackward
  \/ DiscOptimizerStep
  \/ GenZeroGrad
  \/ \E lg \in Logits : GenLoss(lg)
  \/ GenBackward
  \/ GenOptimizerStep
  \/ Accumulate
  \/ AppendLosses
  \/ Report
  \/ Snapshot
  \/ ResetMeans
  \/ IncrStep
  \/ EpochEnd

Spec == Init /\ [][Next]_vars

\* The loop runs to completion: nothing suspends it.
FairSpec == Spec /\ WF_vars(Next)

(* ---------------------------------------------------------------------- *)
(* One epoch at the notebook's own sizes: 60,000 examples in batches of    *)
(* 128, a report every 100 steps. The logits are fixed, so that the run is *)
(* a single path.                                                          *)
(* ---------------------------------------------------------------------- *)
RealHp == [num_epochs |-> 1, display_step |-> RealDisplayStep,
           batch_size |-> RealBatchSize, n_data |-> RealDatasetLen]

EpochInit == InitLoop(RealHp) /\ fwd = NoFwd

EpochNext ==
  \/ FetchBatch
  \/ DiscZeroGrad
  \/ DiscLoss(-1, 1)
  \/ DiscBackward
  \/ DiscOptimizerStep
  \/ GenZeroGrad
  \/ GenLoss(-1)
  \/ GenBackward
  \/ GenOptimizerStep
  \/ Accumulate
  \/ AppendLosses
  \/ Report
  \/ Snapshot
  \/ ResetMeans
  \/ IncrStep
  \/ EpochEnd

EpochSpec == EpochInit /\ [][EpochNext]_vars

(* ---------------------------------------------------------------------- *)
(* The Generator's forward pass on its own, layer by layer, for a module   *)
(* built as Generator(z) and an input of b rows of z features.             *)
(* ---------------------------------------------------------------------- *)
FwdLayers == GeneratorLayers(fwd.z, ImgDim, HiddenDim)

FwdInit ==
  /\ InitLoop(SmallHp)
  /\ fwd \in {[i |-> 0, z |-> z, b |-> b, x |-> get_generator_noise(b, z)] :
                b \in 1..MaxB, z \in 1..MaxZ}

\* self.gen(noise): nn.Sequential applies its modules in order
FwdLayer ==
  /\ fwd.x.status = "ok"
  /\ fwd.i < Len(FwdLayers)
  /\ fwd' = [fwd EXCEPT !.i = fwd.i + 1,
                        !.x = ApplyLayer(FwdLayers[fwd.i + 1], fwd.x, generator_training)]
  /\ UNCHANGED loopvars

FwdDone == fwd.x.status = "error" \/ (fwd.x.status = "ok" /\ fwd.i = Len(FwdLayers))

FwdSpec == FwdInit /\ [][FwdLayer]_vars

(* ====================================================================== *)
(* Properties.                                                             *)
(* ====================================================================== *)
DiscPhase == {"disc_zero", "disc_loss", "disc_backward", "disc_step"}

GenPhase == {"gen_zero", "gen_loss", "gen_backward", "gen_step"}

AfterGen == {"accumulate", "append", "report", "snapshot", "reset", "incr"}

\* C1: in every step the discriminator's optimizer step comes before the
\* generator loss is computed: the generator loss of step k is evaluated on
\* the discriminator parameters that step k's own discriminator update
\* produced (one version past those the discriminator loss of step k saw),
\* and the updates alternate: the discriminator is exactly one update ahead
\* of the generator from its step to the generator's step, and level with it
\* everywhere else.
C1_DiscBeforeGen ==
  /\ params["disc"].ver = cur_step + (IF pc \in GenPhase \cup AfterGen THEN 1 ELSE 0)
  /\ params["gen"].ver = cur_step + (IF pc \in AfterGen THEN 1 ELSE 0)
  /\ pc \in {"gen_backward", "gen_step"} \cup AfterGen =>
       /\ gen_loss.step = cur_step
       /\ disc_loss.step = cur_step
       /\ gen_loss.disc_ver = disc_loss.disc_ver + 1
       /\ gen_loss.disc_ver = params["disc"].ver
       /\ <<"disc_loss", cur_step>> \in params["disc"].by
       /\ gen_loss.gen_ver = disc_loss.gen_ver

C1_Witness ==
  /\ pc = "gen_backward"
  /\ epoch = 1
  /\ gen_loss.disc_ver = cur_step + 1
  /\ disc_loss.disc_ver = cur_step

\* C2: the statements of the discriminator phase leave the generator's
\* parameters as they are, those of the generator phase leave the
\* discriminator's as they are, and a network's parameters change only in
\* its own optimizer's step.
C2_OwnOptimizerOnly ==
  [][ /\ pc \in DiscPhase => params'["gen"] = params["gen"]
      /\ pc \in GenPhase => params'["disc"] = params["disc"]
      /\ params'["gen"] # params["gen"] => pc = "gen_step"
      /\ params'["disc"] # params["disc"] => pc = "disc_step" ]_vars

C2_Witness ==
  /\ pc = "accumulate"
  /\ cur_step = 1
  /\ params["disc"].ver = gen_loss.disc_ver
  /\ params["gen"].ver = disc_loss.gen_ver + 1
  /\ grads["disc"] # {}
  /\ grads["gen"] # {}

\* C3: what an optimizer step applies comes from the current batch's own
\* loss only: the discriminator's k-th update consumed the discriminator
\* loss of step k and nothing else, the generator's the generator loss of
\* step k and nothing else; the contribution the generator loss leaves on the
\* discriminator's gradients is gone when the discriminator steps, and the
\* discriminator loss never leaves one on the generator's gradients.
C3_OwnLossOnly ==
  /\ params["disc"].ver > 0 =>
       params["disc"].by = {<<"disc_loss", params["disc"].ver - 1>>}
  /\ params["gen"].ver > 0 =>
       params["gen"].by = {<<"gen_loss", params["gen"].ver - 1>>}
  /\ pc \in {"disc_loss", "disc_backward"} => grads["disc"] \subseteq {<<"disc_loss", cur_step>>}
  /\ pc = "disc_step" => grads["disc"] = {<<"disc_loss", cur_step>>}
  /\ pc = "gen_step" => grads["gen"] = {<<"gen_loss", cur_step>>}
  /\ \A t \in grads["gen"] : t[1] = "gen_loss"

C3_Witness ==
  /\ pc = "gen_zero"
  /\ cur_step = 1
  /\ params["disc"].by = {<<"disc_loss", 1>>}
  /\ params["gen"].by = {<<"gen_loss", 0>>}

(* ---------------------------------------------------------------------- *)
(* The running totals, the lists and the reports.                          *)
(* ---------------------------------------------------------------------- *)
\* The steps whose losses the accumulators hold once step k has been added:
\* step k alone at k = 0, and otherwise the steps after the last multiple of
\* display_step below k, up to k.
Window(k) == IF k = 0 THEN 1 ELSE k - ((k - 1) \div hp.display_step) * hp.display_step

\* The sum of loss / batch size over the n entries of step_log ending at
\* entry j, for the discriminator (which = "d") or the generator ("g").
RECURSIVE SumLog(_, _, _)
SumLog(which, j, n) ==
  IF n = 0 THEN 0
  ELSE SumLog(which, j - 1, n - 1)
       + ((IF which = "d" THEN step_log[j].d ELSE step_log[j].g) * Scale) \div step_log[j].b

\* What the accumulators hold at the current statement, as a number of steps.
Held ==
  IF pc \in {"append", "report", "snapshot", "reset"} THEN Window(cur_step)
  ELSE IF pc = "incr" THEN (IF cur_step % hp.display_step = 0 THEN 0 ELSE Window(cur_step))
  ELSE IF cur_step = 0 \/ (cur_step - 1) % hp.display_step = 0 THEN 0
  ELSE Window(cur_step - 1)

\* C4 as stated: at every report each accumulator holds the sum over the
\* display_step steps since the previous reset.
C4_AsClaimed ==
  pc = "snapshot" =>
    /\ Len(step_log) >= hp.display_step
    /\ reports[Len(reports)].disc = SumLog("d", Len(step_log), hp.display_step)
    /\ reports[Len(reports)].gen = SumLog("g", Len(step_log), hp.display_step)

\* C4 (amended): the two accumulators are reset together, at the steps that
\* are multiples of display_step, and between resets each grows by the
\* step's loss over the step's batch size; each report prints both before
\* the reset. At the report of step 0 they hold that one step's terms; at
\* every later report they hold the sum over the display_step steps since
\* the previous reset.
C4_ResetTogether ==
  /\ Held <= Len(step_log)
  /\ mean_discriminator_loss = SumLog("d", Len(step_log), Held)
  /\ mean_generator_loss = SumLog("g", Len(step_log), Held)
  /\ pc = "snapshot" =>
       /\ reports[Len(reports)].disc = mean_discriminator_loss
       /\ reports[Len(reports)].gen = mean_generator_loss
       /\ Held = IF cur_step = 0 THEN 1 ELSE hp.display_step

C4_Witness ==
  /\ pc = "snapshot"
  /\ cur_step = hp.display_step
  /\ Len(reports) = 2
  /\ reports[2].disc = SumLog("d", Len(step_log), hp.display_step)
  /\ reports[2].disc > reports[1].disc

\* C8: the discriminator loss is half the sum of two criterion terms, the
\* discriminator's logits on the detached generator output against target 0
\* and its logits on the real batch against target 1; the generator loss is
\* one term, the logits on the generator output, not detached, against
\* target 1.
C8_LossTerms ==
  /\ disc_loss.kind = "disc_loss" =>
       /\ Len(disc_loss.terms) = 2
       /\ disc_loss.terms[1].input = "fake" /\ disc_loss.terms[1].detached
       /\ disc_loss.terms[1].target = 0
       /\ disc_loss.terms[2].input = "real" /\ disc_loss.terms[2].target = 1
       /\ disc_loss.val * 2 = Softplus(disc_loss.terms[1].logit)
                              + Softplus(0 - disc_loss.terms[2].logit)
       /\ disc_loss.graph = {"disc"}
  /\ gen_loss.kind = "gen_loss" =>
       /\ Len(gen_loss.terms) = 1
       /\ gen_loss.terms[1].input = "fake" /\ ~gen_loss.terms[1].detached
       /\ gen_loss.terms[1].target = 1
       /\ gen_loss.val = Softplus(0 - gen_loss.terms[1].logit)
       /\ gen_loss.graph = {"gen", "disc"}

C8_Witness ==
  /\ pc = "gen_backward"
  /\ disc_loss.terms[1].logit = 1
  /\ disc_loss.terms[2].logit = 1
  /\ disc_loss.val = 813
  /\ gen_loss.val = 1313

\* The multiples of display_step among the steps 0 .. n-1.
Multiples(n) == (n + hp.display_step - 1) \div hp.display_step

\* C9: the steps whose number is a multiple of display_step, and only those,
\* print a report, append one grid sampled from fresh noise to img_list and
\* reset the running totals; cur_step counts on across epochs, so that after
\* n steps img_list holds one entry per multiple of display_step in 0 .. n-1.
C9_EveryDisplayStep ==
  /\ Len(reports) = Multiples(IF pc \in {"snapshot", "reset", "incr"}
                              THEN cur_step + 1 ELSE cur_step)
  /\ Len(img_list) = Multiples(IF pc \in {"reset", "incr"} THEN cur_step + 1 ELSE cur_step)
  /\ \A i \in DOMAIN reports : reports[i].step = (i - 1) * hp.display_step
  /\ \A i \in DOMAIN img_list :
       /\ img_list[i].step = (i - 1) * hp.display_step
       /\ img_list[i].gen_ver = img_list[i].step + 1
       /\ \A j \in DOMAIN img_list : j # i => img_list[j].noise_id # img_list[i].noise_id
  /\ pc = "reset" =>
       /\ img_list[Len(img_list)].noise_id = rng_calls
       /\ img_list[Len(img_list)].noise_id \notin {disc_loss.noise_id, gen_loss.noise_id}
  /\ pc = "incr" =>
       (mean_generator_loss = 0 /\ mean_discriminator_loss = 0)
         <=> cur_step % hp.display_step = 0
  /\ pc \in {"fetch", "epoch_end"} =>
       cur_step = epoch * LoaderLen + (loader_pos + hp.batch_size - 1) \div hp.batch_size

C9_Witness ==
  /\ pc = "incr"
  /\ epoch = 1
  /\ cur_step = hp.display_step
  /\ Len(img_list) = 2
  /\ Len(reports) = 2
  /\ mean_generator_loss = 0

\* C10: every step appends the discriminator accumulator to G_losses and the
\* generator accumulator to D_losses, as they stand after the step's
\* addition and before the step's reset.
C10_SwappedLists ==
  /\ Len(G_losses) = Len(D_losses)
  /\ Len(G_losses) <= Len(step_log)
  /\ \A j \in DOMAIN G_losses :
       /\ G_losses[j] = SumLog("d", j, Window(j - 1))
       /\ D_losses[j] = SumLog("g", j, Window(j - 1))
  /\ pc \in {"report", "snapshot", "reset"} =>
       /\ Len(G_losses) = cur_step + 1
       /\ G_losses[Len(G_losses)] = mean_discriminator_loss
       /\ D_losses[Len(D_losses)] = mean_generator_loss

C10_Witness ==
  /\ pc = "reset"
  /\ cur_step = hp.display_step
  /\ G_losses[Len(G_losses)] = mean_discriminator_loss
  /\ D_losses[Len(D_losses)] = mean_generator_loss
  /\ mean_discriminator_loss # mean_generator_loss
  /\ G_losses[Len(G_losses)] > G_losses[Len(G_losses) - 1]

(* ---------------------------------------------------------------------- *)
(* Termination and the number of update pairs.                             *)
(* ---------------------------------------------------------------------- *)
\* The update pairs of a whole run: num_epochs passes over the loader.
TotalSteps == hp.num_epochs * LoaderLen

\* C5: the loop terminates, and only once num_epochs passes over the loader
\* are complete: it ends after exactly num_epochs * len(train_loader)
\* discriminator-then-generator update pairs, whatever the losses, and never
\* stops before.
C5_Terminates ==
  /\ <>(pc = "done")
  /\ [](pc = "done" => /\ cur_step = TotalSteps
                       /\ epoch = hp.num_epochs - 1
                       /\ params["disc"].ver = TotalSteps
                       /\ params["gen"].ver = TotalSteps
                       /\ Len(G_losses) = TotalSteps)
  /\ [](pc # "error" /\ cur_step <= TotalSteps)

C5_Witness ==
  /\ pc = "done"
  /\ cur_step = TotalSteps
  /\ cur_step = NumEpochs * 2
  /\ Len(reports) > 1
  /\ Len(shown) > 0

\* The batches of epoch e that the loop has run, by size.
BatchesOfSize(e, n) ==
  Cardinality({j \in DOMAIN step_log : step_log[j].epoch = e /\ step_log[j].b = n})

BatchesOf(e) == Cardinality({j \in DOMAIN step_log : step_log[j].epoch = e})

\* The noise of both losses has one row per example of the current batch.
NoiseSizedToBatch ==
  /\ pc \in {"disc_backward", "disc_step"} \cup GenPhase \cup AfterGen =>
       disc_loss.noise = <<cur_batch_size, z_dim>>
  /\ pc \in {"gen_backward", "gen_step"} \cup AfterGen =>
       gen_loss.noise = <<cur_batch_size, z_dim>>

\* C6 as stated: an epoch over 60,000 examples in batches of 128 yields 469
\* full batches, and 469 or 470 update pairs.
C6_AsClaimed ==
  pc \in {"epoch_end", "done"} =>
    /\ BatchesOfSize(epoch, 128) = 469
    /\ BatchesOf(epoch) \in {469, 470}

\* C6 (amended): an epoch over 60,000 examples in batches of 128 yields
\* exactly 468 full batches (60000 // 128) and, the loader keeping the
\* remainder, one partial batch of 96 examples, the last: 469
\* discriminator-then-generator update pairs, each with its noise sized to
\* the current batch.
C6_Batches ==
  /\ NoiseSizedToBatch
  /\ \A j \in DOMAIN step_log : step_log[j].b = IF j <= 468 THEN 128 ELSE 96
  /\ pc \in {"epoch_end", "done"} =>
       /\ BatchesOfSize(epoch, 128) = 468
       /\ 468 = 60000 \div 128
       /\ BatchesOfSize(epoch, 96) = 1
       /\ BatchesOf(epoch) = 469
       /\ cur_step = 469
       /\ params["disc"].ver = 469
       /\ params["gen"].ver = 469
       /\ loader_pos = 60000

C6_Witness ==
  /\ pc = "done"
  /\ cur_step = 469
  /\ cur_batch_size = 96
  /\ gen_loss.noise = <<96, 64>>
  /\ Len(img_list) = 5

(* ---------------------------------------------------------------------- *)
(* The Generator's forward pass.                                           *)
(* ---------------------------------------------------------------------- *)
\* C7 as stated: for every batch size b >= 1 and latent dimension z the
\* forward pass of Generator(z) on b rows of z features succeeds and returns
\* b rows of img_dim features, every element inside (0, 1).
C7_AsClaimed ==
  FwdDone /\ fwd.b >= 1 =>
    /\ fwd.x.status = "ok"
    /\ fwd.x.shape = <<fwd.b, ImgDim>>
    /\ fwd.x.range = "unit_open"

(* ---------------------------------------------------------------------- *)
(* Dropout in the generator's forward passes.                              *)
(* ---------------------------------------------------------------------- *)
\* C11 as stated: dropout acts in the training passes only: the generator
\* outputs inside get_discriminator_loss and get_generator_loss are computed
\* with units dropped, and those made for the snapshot grids and for the
\* per-epoch comparison are computed with the generator out of training
\* mode, no unit dropped.
C11_AsClaimed ==
  /\ disc_loss.kind = "disc_loss" => disc_loss.dropout
  /\ gen_loss.kind = "gen_loss" => gen_loss.dropout
  /\ \A i \in DOMAIN img_list : ~img_list[i].dropout
  /\ \A i \in DOMAIN shown : ~shown[i].dropout

(* ---------------------------------------------------------------------- *)
(* The loss lists and the step counter.                                    *)
(* ---------------------------------------------------------------------- *)
\* s is t or t with one entry appended.
AppendedOnly(s, t) ==
  /\ Len(t) \in {Len(s), Len(s) + 1}
  /\ \A i \in DOMAIN s : t[i] = s[i]

\* C12: after every completed step G_losses and D_losses have the same
\* length, cur_step, which is the number of update pairs completed since the
\* start of the run, over all epochs; cur_step grows by exactly one per
\* batch, in the loop body's last statement, and the lists only ever gain
\* an entry at their end.
C12_ListsFollowSteps ==
  /\ [](pc \in {"fetch", "epoch_end", "done"} =>
          /\ Len(G_losses) = cur_step
          /\ Len(D_losses) = cur_step
          /\ params["gen"].ver = cur_step
          /\ params["disc"].ver = cur_step
          /\ cur_step = epoch * LoaderLen
                        + (loader_pos + hp.batch_size - 1) \div hp.batch_size)
  /\ [][ /\ AppendedOnly(G_losses, G_losses')
         /\ AppendedOnly(D_losses, D_losses')
         /\ Len(G_losses') = Len(D_losses')
         /\ cur_step' = IF pc = "incr" THEN cur_step + 1 ELSE cur_step
         /\ pc' = "disc_zero" => Len(G_losses') = cur_step' ]_vars

C12_Witness ==
  /\ pc = "fetch"
  /\ epoch = 1
  /\ cur_step = LoaderLen + 1
  /\ Len(G_losses) = cur_step
  /\ Len(D_losses) = cur_step
  /\ params["gen"].ver = cur_step

====
